---- MODULE Spec2Model ----
(***************************************************************************)
(* Model of the PlayFab client's request engine (PlayFabClient.go):        *)
(* New, PlayFab.request, _request, ConvertToPlayFabErrorJson and           *)
(* isConflictError.  Byte strings and error texts are sequences of tokens; *)
(* a token is a run of characters that the code never splits.              *)
(***************************************************************************)
EXTENDS Integers, Sequences, FiniteSets, TLC

\* ------------------------------------------------------------------------
\* Program constants
\* ------------------------------------------------------------------------
retries == 3
conflictStatus == "\"Conflict\""
StatusOK == 200
SleepSeconds == 1

\* Bound of the model: calls made one after the other on the same client.
MaxCalls == 2

\* ------------------------------------------------------------------------
\* Values: byte slices and errors
\* ------------------------------------------------------------------------
NilBytes == [isNil |-> TRUE, bytes |-> <<>>]
Bytes(b) == [isNil |-> FALSE, bytes |-> b]

NilErr == [kind |-> "nil", text |-> <<>>, Body |-> NilBytes, Method |-> "", RespCode |-> 0]

\* fmt.Sprintf with no operands: a verb renders as %!v(MISSING), the
\* character after '%' being consumed as the verb.
MissingVerb(t) ==
    CASE t = "Bad Gateway" -> "%!B(MISSING)ad Gateway"
      [] t = "Bad Request" -> "%!B(MISSING)ad Request"
      [] t = "Service Unavailable" -> "%!S(MISSING)ervice Unavailable"
      [] t = "oops" -> "%!o(MISSING)ops"
      [] t = "' looking for beginning of value" -> "%!'(MISSING) looking for beginning of value"
      [] OTHER -> "%!(NOVERB)"

RECURSIVE SprintfFrom(_, _)
SprintfFrom(format, i) ==
    IF i > Len(format) THEN <<>>
    ELSE IF format[i] = "%"
         THEN IF i = Len(format) THEN <<"%!(NOVERB)">>
              ELSE <<MissingVerb(format[i + 1])>> \o SprintfFrom(format, i + 2)
         ELSE <<format[i]>> \o SprintfFrom(format, i + 1)

Sprintf(format) == SprintfFrom(format, 1)

\* fmt.Errorf(format): an error whose text is the formatted string.
Errorf(format) ==
    [kind |-> "errorString", text |-> Sprintf(format), Body |-> NilBytes,
     Method |-> "", RespCode |-> 0]

\* errors made by net/http (hc.Do, ioutil.ReadAll, http.NewRequest)
TransportErr(text) ==
    [kind |-> "transport", text |-> text, Body |-> NilBytes, Method |-> "", RespCode |-> 0]

\* &PlayFabError{originError, Body, Method, RespCode}; text is Error().
PlayFabError(resBody, funcName, code) ==
    [kind |-> "PlayFabError",
     text |-> <<funcName, " - ", "Failed To Process Request With status code ",
                ToString(code), ": ">> \o resBody,
     Body |-> Bytes(resBody), Method |-> funcName, RespCode |-> code]

\* strings.Contains(text, s) for a marker s that is one token
StringTokOf(s) ==
    CASE s = "Bad Gateway" -> "\"Bad Gateway\""
      [] s = "Bad Request" -> "\"Bad Request\""
      [] s = "Service Unavailable" -> "\"Service Unavailable\""
      [] OTHER -> s

Contains(text, s) ==
    \E i \in 1..Len(text) : text[i] = s \/ text[i] = StringTokOf(s)

\* ------------------------------------------------------------------------
\* encoding/json over tokens
\* ------------------------------------------------------------------------
StringToks ==
    {"\"status\"", "\"Conflict\"", "\"Unknown\"", "\"error\"", "\"data\"",
     "\"Bad Gateway\"", "\"Bad Request\"", "\"Service Unavailable\"",
     "\"Data\"", "\"Tags\"", "\"Statistics\"", "\"ItemGrantResults\"", "\"vip\""}
LiteralToks == {"true", "false", "null", "5"}
ScalarToks == StringToks \cup LiteralToks

\* first character of a token, as quoted in a json.SyntaxError
FirstChar(t) ==
    CASE t = "<html>" -> "<"
      [] t = "</html>" -> "<"
      [] t = "Service Unavailable" -> "S"
      [] t = "Bad Request" -> "B"
      [] t = "Bad Gateway" -> "B"
      [] t = "oops" -> "o"
      [] t = "\\xef\\xbb\\xbf" -> "\\u00ef"
      [] t \in StringToks -> "\""
      [] t \in {"true"} -> "t"
      [] t \in {"false"} -> "f"
      [] t \in {"null"} -> "n"
      [] OTHER -> t

AfterValue(stack) == IF stack = <<>> THEN "eof" ELSE "commaOrClose"
Pop(stack) == SubSeq(stack, 1, Len(stack) - 1)
Top(stack) == stack[Len(stack)]

SyntaxPhrase(expect) ==
    CASE expect = "eof" -> "' after top-level value"
      [] expect \in {"keyOrClose", "key"} -> "' looking for beginning of object key string"
      [] expect = "colon" -> "' after object key"
      [] expect = "commaOrClose" -> "' after object key:value pair"
      [] OTHER -> "' looking for beginning of value"

\* json.checkValid: <<>> when the input is valid JSON, else the text of the
\* SyntaxError.
RECURSIVE Scan(_, _, _, _)
Scan(b, i, stack, expect) ==
    IF i > Len(b)
    THEN IF expect = "eof" THEN <<>> ELSE <<"unexpected end of JSON input">>
    ELSE LET t == b[i]
             bad == <<"invalid character '", FirstChar(t), SyntaxPhrase(expect)>>
         IN  CASE expect = "eof" -> bad
               [] expect \in {"value", "valueOrClose"} ->
                    IF t \in ScalarToks THEN Scan(b, i + 1, stack, AfterValue(stack))
                    ELSE IF t = "{" THEN Scan(b, i + 1, Append(stack, "obj"), "keyOrClose")
                    ELSE IF t = "[" THEN Scan(b, i + 1, Append(stack, "arr"), "valueOrClose")
                    ELSE IF t = "]" /\ expect = "valueOrClose"
                         THEN Scan(b, i + 1, Pop(stack), AfterValue(Pop(stack)))
                    ELSE bad
               [] expect \in {"keyOrClose", "key"} ->
                    IF t \in StringToks THEN Scan(b, i + 1, stack, "colon")
                    ELSE IF t = "}" /\ expect = "keyOrClose"
                         THEN Scan(b, i + 1, Pop(stack), AfterValue(Pop(stack)))
                    ELSE bad
               [] expect = "colon" ->
                    IF t = ":" THEN Scan(b, i + 1, stack, "value") ELSE bad
               [] OTHER ->
                    IF t = "," THEN Scan(b, i + 1, stack,
                                         IF Top(stack) = "obj" THEN "key" ELSE "value")
                    ELSE IF (t = "}" /\ Top(stack) = "obj") \/ (t = "]" /\ Top(stack) = "arr")
                         THEN Scan(b, i + 1, Pop(stack), AfterValue(Pop(stack)))
                    ELSE bad

checkValid(b) == Scan(b, 1, <<>>, "value")

\* nesting depth before token i of a valid document
RECURSIVE Depth(_, _)
Depth(b, i) ==
    IF i <= 1 THEN 0
    ELSE Depth(b, i - 1) + (IF b[i - 1] \in {"{", "["} THEN 1
                            ELSE IF b[i - 1] \in {"}", "]"} THEN -1 ELSE 0)

\* positions of the keys of the top-level object
KeyPositions(b) ==
    {i \in 2..Len(b) - 1 : Depth(b, i) = 1 /\ b[i] \in StringToks /\ b[i + 1] = ":"
                           /\ b[i - 1] \in {"{", ","}}

\* end of the value that starts at position i
ValueEnd(b, i) ==
    IF b[i] \in {"{", "["}
    THEN CHOOSE j \in i + 1..Len(b) :
            /\ Depth(b, j + 1) = Depth(b, i)
            /\ \A k \in i + 1..j - 1 : Depth(b, k + 1) > Depth(b, i)
    ELSE i

\* the decoded object: key -> tokens of its value; a repeated key keeps the last
DecodeObject(b) ==
    LET keys == {b[i] : i \in KeyPositions(b)}
        last(k) == CHOOSE i \in KeyPositions(b) :
                      b[i] = k /\ \A j \in KeyPositions(b) : b[j] = k => j <= i
    IN  [k \in keys |-> SubSeq(b, last(k) + 2, ValueEnd(b, last(k) + 2))]

JsonKind(b) ==
    IF b[1] = "{" THEN "object"
    ELSE IF b[1] = "[" THEN "array"
    ELSE IF b[1] = "null" THEN "null"
    ELSE IF b[1] \in StringToks THEN "string"
    ELSE IF b[1] \in {"true", "false"} THEN "bool"
    ELSE "number"

\* json.Unmarshal(body, &errorData) with errorData a map[string]interface{}:
\* err is <<>> on success, else the text of the error.
Unmarshal(b) ==
    LET syntax == checkValid(b)
    IN  IF syntax # <<>> THEN [err |-> syntax, map |-> <<>>]
        ELSE IF JsonKind(b) = "object" THEN [err |-> <<>>, map |-> DecodeObject(b)]
        ELSE IF JsonKind(b) = "null" THEN [err |-> <<>>, map |-> <<>>]
        ELSE [err |-> <<"json: cannot unmarshal ", JsonKind(b),
                        " into Go value of type map[string]interface {}">>,
              map |-> <<>>]

\* ------------------------------------------------------------------------
\* Response bodies the server may send
\* ------------------------------------------------------------------------
B_Conflict == <<"{", "\"status\"", ":", "\"Conflict\"", "}">>
B_Unknown == <<"{", "\"status\"", ":", "\"Unknown\"", "}">>
B_UnknownGateway ==
    <<"{", "\"status\"", ":", "\"Unknown\"", ",", "\"error\"", ":", "\"Bad Gateway\"", "}">>
B_StatusUnavailable == <<"{", "\"status\"", ":", "\"Service Unavailable\"", "}">>
B_NoStatus == <<"{", "\"error\"", ":", "\"Bad Request\"", "}">>
B_NumStatus == <<"{", "\"status\"", ":", "5", "}">>
B_ObjStatus == <<"{", "\"status\"", ":", "{", "\"error\"", ":", "\"Conflict\"", "}", "}">>
B_Null == <<"null">>
B_JsonString == <<"\"Bad Gateway\"">>
B_Array == <<"[", "\"Conflict\"", "]">>
B_Html503 == <<"<html>", "Service Unavailable", "</html>">>
B_Text400 == <<"Bad Request">>
B_Garbage == <<"<html>", "oops", "</html>">>
B_Percent == <<"%", "Bad Gateway">>
B_PercentOops == <<"%", "oops">>
B_Truncated == <<"{", "\"status\"", ":", "\"Conflict\"">>
B_Empty == <<>>
B_Data == <<"{", "\"data\"", ":", "{", "}", "}">>
\* success envelopes
B_DataData == <<"{", "\"data\"", ":", "{", "\"Data\"", ":", "{", "}", "}", "}">>
B_DataTags ==
    <<"{", "\"data\"", ":", "{", "\"Tags\"", ":", "[", "\"vip\"", ",", "\"Unknown\"", "]",
      "}", "}">>
B_DataTagsNum == <<"{", "\"data\"", ":", "{", "\"Tags\"", ":", "[", "5", "]", "}", "}">>
B_DataStats ==
    <<"{", "\"data\"", ":", "{", "\"Statistics\"", ":",
      "[", "{", "\"Data\"", ":", "5", "}", ",", "{", "}", "]", "}", "}">>
B_DataItems ==
    <<"{", "\"data\"", ":", "{", "\"ItemGrantResults\"", ":", "[", "{", "}", "]", "}", "}">>
B_BomDataData == <<"\\xef\\xbb\\xbf">> \o B_DataData

Bodies ==
    {B_Conflict, B_Unknown, B_UnknownGateway, B_StatusUnavailable, B_NoStatus,
     B_NumStatus, B_ObjStatus, B_Null, B_JsonString, B_Array, B_Html503, B_Text400,
     B_Garbage, B_Percent, B_PercentOops, B_Truncated, B_Empty, B_Data}

\* ------------------------------------------------------------------------
\* The client
\* ------------------------------------------------------------------------
Secrets == {"", "s3cr3t"}
TitleIds == {"", "ABC1", "bad host"}
CatalogVersions == {"", "v1"}
\* the nil Logger interface value
NilLogger == ""
Loggers == {"noopLogger", "customLogger", "otherLogger"}
\* the loggers given to WithLogger, in the order of the opts of New
OptionLists ==
    {<<>>, <<"customLogger">>, <<"customLogger", "otherLogger">>, <<NilLogger>>}

NilPf == [isNil |-> TRUE, secret |-> "", catalogVersion |-> "", titleId |-> "",
          logger |-> NilLogger, hc |-> ""]

\* WithLogger(logger) applied to pf
WithLogger(logger, pf) == [pf EXCEPT !.logger = logger]

\* the loop over opts stopping after the first option
ApplyOptions_FirstOnly(opts, pf) ==
    IF opts = <<>> THEN pf ELSE WithLogger(Head(opts), pf)

RECURSIVE ApplyOptions(_, _)
ApplyOptions(opts, pf) ==
    IF opts = <<>> THEN pf
    ELSE ApplyOptions(Tail(opts), WithLogger(Head(opts), pf))

\* New that tests the secret only
New_SecretOnly(secret, titleId, catalogVersion, opts) ==
    IF secret = ""
    THEN [pf |-> NilPf, err |-> Errorf(<<"secret is required">>), applied |-> <<>>]
    ELSE [pf |-> ApplyOptions(opts, [isNil |-> FALSE, secret |-> secret,
                                     catalogVersion |-> catalogVersion,
                                     titleId |-> titleId, logger |-> "noopLogger",
                                     hc |-> "http.Client"]),
          err |-> NilErr, applied |-> opts]

\* New: the client, the error, and the options that were applied
New(secret, titleId, catalogVersion, opts) ==
    IF secret = ""
    THEN [pf |-> NilPf, err |-> Errorf(<<"secret is required">>), applied |-> <<>>]
    ELSE IF catalogVersion = ""
         THEN [pf |-> NilPf, err |-> Errorf(<<"catalog version is required">>),
               applied |-> <<>>]
    ELSE IF titleId = ""
         THEN [pf |-> NilPf, err |-> Errorf(<<"titleId is required">>), applied |-> <<>>]
    ELSE [pf |-> ApplyOptions(opts, [isNil |-> FALSE, secret |-> secret,
                                     catalogVersion |-> catalogVersion,
                                     titleId |-> titleId, logger |-> "noopLogger",
                                     hc |-> "http.Client"]),
          err |-> NilErr, applied |-> opts]

\* ------------------------------------------------------------------------
\* _request
\* ------------------------------------------------------------------------
\* the calls the endpoint wrappers make: method, api, funcName, reqBody, and
\* arg, the list a wrapper was given when its request body is built from one
Calls ==
    {[method |-> "POST", api |-> "Server", funcName |-> "GrantItemsToUser",
      reqBody |-> <<"{", "}">>, arg |-> <<>>],
     [method |-> "GET", api |-> "Server", funcName |-> "GetPlayerStatistics",
      reqBody |-> <<"{", "}">>, arg |-> <<>>]}

NoCall == [method |-> "", api |-> "", funcName |-> "", reqBody |-> <<>>, arg |-> <<>>]

\* fmt.Sprintf(url, titleId, api, funcName)
Url(titleId, api, funcName) ==
    <<"https://", titleId, ".playfabapi.com/", api, "/", funcName>>

\* http.NewRequest fails when the URL does not parse
UrlParses(u) == u[2] # "bad host"

NewRequest(method, u, reqBody, secretKey) ==
    IF UrlParses(u)
    THEN [err |-> NilErr,
          req |-> [method |-> method, url |-> u, body |-> reqBody,
                   contentType |-> "application/json", secretKey |-> secretKey]]
    ELSE [err |-> TransportErr(<<"parse ">> \o u \o <<": invalid character in host name">>),
          req |-> [method |-> "", url |-> <<>>, body |-> <<>>, contentType |-> "",
                   secretKey |-> ""]]

Resp(c, b) == [kind |-> "response", code |-> c, body |-> b, text |-> <<>>]

\* what one round trip can bring back: a response (any body can come with a
\* rejection; a few come with 200 or with another 2xx), or a failure of
\* hc.Do or of reading the body
Outcomes ==
    {Resp(409, b) : b \in Bodies}
    \cup {Resp(200, b) : b \in {B_Data, B_Conflict, B_Html503, B_Empty}}
    \cup {Resp(201, b) : b \in {B_Data, B_Conflict}}
    \cup {Resp(503, b) : b \in {B_Html503, B_Garbage}}
    \cup {Resp(304, B_Empty)}
    \cup {[kind |-> "doError", code |-> 0, body |-> <<>>,
           text |-> <<"dial tcp: connection refused">>],
          [kind |-> "readError", code |-> 0, body |-> <<>>,
           text |-> <<"unexpected EOF">>]}

\* _request taking every 2xx status for a success
RequestResult_Any2xx(o, funcName) ==
    IF o.kind # "response" THEN [d |-> NilBytes, err |-> TransportErr(o.text)]
    ELSE IF o.code < 200 \/ o.code > 299
         THEN [d |-> Bytes(o.body), err |-> PlayFabError(o.body, funcName, o.code)]
    ELSE [d |-> Bytes(o.body), err |-> NilErr]

\* _request losing the body it read on success
RequestResult_DropsBody(o, funcName) ==
    IF o.kind # "response" THEN [d |-> NilBytes, err |-> TransportErr(o.text)]
    ELSE IF o.code # StatusOK
         THEN [d |-> Bytes(o.body), err |-> PlayFabError(o.body, funcName, o.code)]
    ELSE [d |-> NilBytes, err |-> NilErr]

\* _request after hc.Do has returned outcome o: the pair (resBody, err)
RequestResult(o, funcName) ==
    IF o.kind # "response" THEN [d |-> NilBytes, err |-> TransportErr(o.text)]
    ELSE IF o.code # StatusOK
         THEN [d |-> Bytes(o.body), err |-> PlayFabError(o.body, funcName, o.code)]
    ELSE [d |-> Bytes(o.body), err |-> NilErr]

\* ------------------------------------------------------------------------
\* Classification
\* ------------------------------------------------------------------------
ConvertToPlayFabErrorJson(oerr) ==
    IF oerr.kind # "PlayFabError"
    THEN [errorData |-> <<>>, err |-> Errorf(<<"Failed to convert to playfab error">>)]
    ELSE LET u == Unmarshal(oerr.Body.bytes)
         IN  IF u.err # <<>>
             THEN [errorData |-> <<>>,
                   err |-> Errorf(u.err \o <<" originalError: ">> \o oerr.Body.bytes)]
             ELSE [errorData |-> u.map, err |-> NilErr]

\* isConflictError without the comparison with conflictStatus
isConflictError_AnyStatus(errorData) ==
    LET present == "\"status\"" \in DOMAIN errorData
        ok == present /\ Len(errorData["\"status\""]) = 1
                      /\ errorData["\"status\""][1] \in StringToks
    IN  IF ~ok
        THEN [err |-> Errorf(<<"Failed to parse status from error">>), isConflict |-> FALSE]
        ELSE [err |-> NilErr, isConflict |-> TRUE]

\* isConflictError ignoring the ok of the type assertion
isConflictError_OkIgnored(errorData) ==
    LET present == "\"status\"" \in DOMAIN errorData
        ok == present /\ Len(errorData["\"status\""]) = 1
                      /\ errorData["\"status\""][1] \in StringToks
    IN  IF ok /\ errorData["\"status\""][1] = conflictStatus
        THEN [err |-> NilErr, isConflict |-> TRUE]
        ELSE [err |-> NilErr, isConflict |-> FALSE]

isConflictError(errorData) ==
    LET present == "\"status\"" \in DOMAIN errorData
        ok == present /\ Len(errorData["\"status\""]) = 1
                      /\ errorData["\"status\""][1] \in StringToks
    IN  IF ~ok
        THEN [err |-> Errorf(<<"Failed to parse status from error">>), isConflict |-> FALSE]
        ELSE IF errorData["\"status\""][1] # conflictStatus
             THEN [err |-> NilErr, isConflict |-> FALSE]
        ELSE [err |-> NilErr, isConflict |-> TRUE]

\* the tests with the early return left out
IsRetryableText_Always(text) == TRUE

\* the tests without the one for "Bad Request"
IsRetryableText_NoBadRequest(text) ==
    \/ Contains(text, "Service Unavailable")
    \/ Contains(text, "Bad Gateway")

\* the three strings.Contains tests of PlayFab.request
IsRetryableText(text) ==
    \/ Contains(text, "Service Unavailable")
    \/ Contains(text, "Bad Request")
    \/ Contains(text, "Bad Gateway")

\* ------------------------------------------------------------------------
\* PlayFab.request as a state machine
\* ------------------------------------------------------------------------
VARIABLES
    args,      \* the arguments New was called with
    newErr,    \* the error New returned
    applied,   \* the options New applied, in order
    pf,        \* the client
    calls,     \* invocations of request started so far
    call,      \* arguments of the current invocation
    pc,        \* "new", "failed", "panicked", "idle", "loop", "inflight", "sleep",
               \* "done"
    counter,   \* the local counter
    err,       \* the named result err
    d,         \* the named result d
    ret,       \* what the invocation returned: [d, err]
    outcomes,  \* outcomes of the round trips of this invocation, in order
    results,   \* what _request returned to this invocation, in order
    sent,      \* requests handed to hc.Do by this invocation, in order
    sleeps,    \* time.Sleep calls completed by this invocation
    log,       \* logger calls of request in this invocation, in order
    wlog,      \* logger calls of the endpoint wrapper around this invocation
    wret,      \* what the endpoint wrapper returned: [val, err]
    trace,     \* what this invocation did, in program order
    twin,      \* the same invocation on a client that differs in its secret
               \* only and is given the same outcomes
    inv2       \* a second invocation, running concurrently on the same client

vars == <<args, newErr, applied, pf, calls, call, pc, counter, err, d, ret, outcomes,
          results, sent, sleeps, log, wlog, wret, trace, twin, inv2>>

NoRet == [d |-> NilBytes, err |-> NilErr]
NoArgs == [secret |-> "", titleId |-> "", catalogVersion |-> "", opts |-> <<>>]

DebugEntry(n) ==
    [level |-> "Debug", text |-> <<"Starting retry ", ToString(n), " for playfab request">>]
\* the error log of the wait leaving out the text of the error
ErrorEntry_NoText(text) ==
    [level |-> "Error", text |-> <<"waiting for retry after error - ">>]

ErrorEntry(text) ==
    [level |-> "Error", text |-> <<"waiting for retry after error - ">> \o text]

\* the logger calls of the endpoint wrapper before it calls request
WrapperBefore(c) ==
    CASE c.funcName = "GrantItemsToUser" ->
           <<[level |-> "Debug",
              text |-> <<"grant items to user playfabId: ", "player1", ", itemIds ",
                         "[item1]">>]>>
      [] c.funcName = "GetPlayerStatistics" ->
           <<[level |-> "Debug", text |-> <<"starting ReadPlayerStatistics">>]>>
      [] c.funcName = "UpdatePlayerStatistics" ->
           <<[level |-> "Debug", text |-> <<"starting UpdatePlayerStatistics">>]>>
      [] c.funcName = "GetTitleInternalData" ->
           <<[level |-> "Debug", text |-> <<"starting GetTitleInternalData">>]>>
      [] c.funcName = "GetTitleData" ->
           <<[level |-> "Debug", text |-> <<"starting GetTitleData">>]>>
      [] OTHER -> <<>>

\* the logger calls of the endpoint wrapper once request has returned r
WrapperAfter(c, r) ==
    IF c.funcName = "GrantItemsToUser"
    THEN <<[level |-> "Debug", text |-> <<"grant items response ">> \o r.d.bytes]>>
         \o (IF r.err # NilErr
             THEN <<[level |-> "Debug",
                     text |-> <<"Failed Grant Items To User ">> \o r.err.text]>>
             ELSE <<>>)
    ELSE <<>>

\* ------------------------------------------------------------------------
\* What the endpoint wrappers make of what request returned
\* ------------------------------------------------------------------------
\* a wrapper's result value: nil, or the decoded value as its tokens
NilVal == [isNil |-> TRUE, toks |-> <<>>]
Val(t) == [isNil |-> FALSE, toks |-> t]
NoWret == [val |-> NilVal, err |-> NilErr]

\* the error json.Unmarshal returned
JsonErr(text) ==
    [kind |-> "json", text |-> text, Body |-> NilBytes, Method |-> "", RespCode |-> 0]

\* m[k] of a map[string]interface{}: the nil interface when k is absent
Lookup(m, k) == IF k \in DOMAIN m THEN m[k] ELSE <<"null">>

\* the dynamic type json.Unmarshal gives a value stored in an interface{}
GoType(v) ==
    CASE JsonKind(v) = "object" -> "map[string]interface {}"
      [] JsonKind(v) = "array" -> "[]interface {}"
      [] JsonKind(v) = "string" -> "string"
      [] JsonKind(v) = "bool" -> "bool"
      [] JsonKind(v) = "null" -> "nil"
      [] OTHER -> "float64"

\* ok of v.(T): the dynamic type of v is exactly T
TypeAssert(v, T) == GoType(v) = T

\* the elements of a decoded array, in order
RECURSIVE ElemsFrom(_, _)
ElemsFrom(b, i) ==
    IF i >= Len(b) THEN <<>>
    ELSE <<SubSeq(b, i, ValueEnd(b, i))>> \o ElemsFrom(b, ValueEnd(b, i) + 2)

ArrayElems(b) == ElemsFrom(b, 2)

\* bytes.TrimPrefix(body, []byte("\xef\xbb\xbf"))
BOM == "\\xef\\xbb\\xbf"
TrimPrefixBOM(b) == IF Len(b) > 0 /\ b[1] = BOM THEN Tail(b) ELSE b

\* the wrappers that discard the response body
WriteWrappers ==
    {"UpdateUserReadOnlyData", "UpdatePlayerStatistics", "SendPushNotification",
     "AddPlayerTag", "RemovePlayerTag"}

\* the text of the error of a wrapper whose res["data"] is not an object
DataErrorText(funcName) ==
    CASE funcName = "GetUserReadOnlyData" -> "Failed to parse GetUserReadOnlyData data"
      [] funcName = "GrantItemsToUser" -> "Failed to parse GrantItemsToUser data"
      [] funcName = "GetPlayerStatistics" -> "Failed to parse  GetPLayerStatistics"
      [] funcName = "GetTitleInternalData" -> "Failed to parse GetTitleInternalData result"
      [] funcName = "GetTitleData" -> "Failed to parse GetTitleData result"
      [] OTHER -> "Failed to parse GetPlayerCombinedInfo result"

\* GetPlayerTags' loop over t: every element must be a string
TagsOf(t) ==
    IF \E i \in 1..Len(t) : ~TypeAssert(t[i], "string")
    THEN [val |-> NilVal, err |-> Errorf(<<"Failed to parse tags result">>)]
    ELSE [val |-> Val([i \in 1..Len(t) |-> t[i][1]]), err |-> NilErr]

\* the wrapper's code after data, ok := res["data"].(map[string]interface{})
\* succeeded
Extract(funcName, data) ==
    CASE funcName = "GetUserReadOnlyData" ->
           LET keysData == Lookup(data, "\"Data\"")
           IN  IF ~TypeAssert(keysData, "map[string]interface {}")
               THEN [val |-> NilVal,
                     err |-> Errorf(<<"Failed to parse GetUserReadOnlyData data">>)]
               ELSE [val |-> Val(keysData), err |-> NilErr]
      [] funcName = "GrantItemsToUser" ->
           LET itemsRes == Lookup(data, "\"ItemGrantResults\"")
           IN  IF ~TypeAssert(itemsRes, "[]interface {}")
               THEN [val |-> NilVal,
                     err |-> Errorf(<<"Failed to parse GrantItemsToUser ItemGrantResults">>)]
               ELSE [val |-> Val(itemsRes), err |-> NilErr]
      [] funcName = "GetPlayerStatistics" ->
           LET statisitcs == Lookup(data, "\"Statistics\"")
           IN  IF ~TypeAssert(statisitcs, "[]map[string]interface {}")
               THEN [val |-> NilVal,
                     err |-> Errorf(<<"Failed to parse  GetPLayerStatistics">>)]
               ELSE [val |-> Val(statisitcs), err |-> NilErr]
      [] funcName \in {"GetTitleInternalData", "GetTitleData"} ->
           \* internalData, ok := data["Data"].(map[string]interface{}) with ok
           \* never read: the zero value, a nil map, when the assertion fails
           LET internalData == Lookup(data, "\"Data\"")
           IN  [val |-> IF TypeAssert(internalData, "map[string]interface {}")
                        THEN Val(internalData) ELSE NilVal,
                err |-> NilErr]
      [] OTHER ->
           \* GetPlayerTags: t, ok := data["Tags"].([]interface{}) with ok never
           \* read: a nil slice when the assertion fails
           LET tags == Lookup(data, "\"Tags\"")
           IN  TagsOf(IF TypeAssert(tags, "[]interface {}") THEN ArrayElems(tags)
                      ELSE <<>>)

\* what the wrapper of call c returns once request has returned r
WrapperReturn(c, r) ==
    IF r.err # NilErr THEN [val |-> NilVal, err |-> r.err]
    ELSE IF c.funcName \in WriteWrappers \cup {"RevokeInventoryItems"} THEN NoWret
    ELSE LET body == IF c.funcName = "GetTitleData" THEN TrimPrefixBOM(r.d.bytes)
                     ELSE r.d.bytes
             u == Unmarshal(body)
             data == Lookup(u.map, "\"data\"")
         IN  IF u.err # <<>> THEN [val |-> NilVal, err |-> JsonErr(u.err)]
             ELSE IF ~TypeAssert(data, "map[string]interface {}")
                  THEN [val |-> NilVal, err |-> Errorf(<<DataErrorText(c.funcName)>>)]
                  ELSE Extract(c.funcName, DecodeObject(data))

\* the for condition written with < in place of <=
LoopGuard_Strict(c) == c < retries

\* the for condition allowing one pass more
LoopGuard_OneMore(c) == c <= retries + 1

\* the for condition
LoopGuard(c) == c <= retries

\* the body of the loop after _request has returned (dInner, oerr):
\* what is assigned to err, what is logged, and whether the invocation
\* returns (and what) or goes on to time.Sleep
Decide(dInner, oerr, errBefore) ==
    IF oerr = NilErr
    THEN [pc |-> "done", err |-> errBefore, ret |-> [d |-> dInner, err |-> NilErr],
          logged |-> <<>>]
    ELSE LET conv == ConvertToPlayFabErrorJson(oerr)
         IN  IF conv.err # NilErr
             THEN IF ~IsRetryableText(conv.err.text)
                  THEN [pc |-> "done", err |-> conv.err,
                        ret |-> [d |-> dInner, err |-> conv.err], logged |-> <<>>]
                  ELSE [pc |-> "sleep", err |-> conv.err, ret |-> NoRet,
                        logged |-> <<ErrorEntry(conv.err.text)>>]
             ELSE LET ice == isConflictError(conv.errorData)
                  IN  IF ice.err # NilErr
                      THEN [pc |-> "done", err |-> conv.err,
                            ret |-> [d |-> dInner, err |-> ice.err], logged |-> <<>>]
                      ELSE IF ~ice.isConflict
                           THEN [pc |-> "done", err |-> conv.err,
                                 ret |-> [d |-> dInner, err |-> oerr], logged |-> <<>>]
                      ELSE [pc |-> "sleep", err |-> conv.err, ret |-> NoRet,
                            logged |-> <<>>]

\* the events of the loop body that follow the return of _request
DecideEvents(dec) ==
    (IF dec.logged # <<>> THEN <<"Error">> ELSE <<>>)
    \o (IF dec.pc = "done" THEN <<"Return">> ELSE <<>>)

\* ------------------------------------------------------------------------
\* One invocation of a wrapper and of PlayFab.request as a record: its
\* locals, what it returned and what it did.  The steps of request are
\* written once, on such a record, and used for every invocation.
\* ------------------------------------------------------------------------
InvIdle ==
    [call |-> NoCall, pc |-> "idle", counter |-> 0, err |-> NilErr, d |-> NilBytes,
     ret |-> NoRet, outcomes |-> <<>>, results |-> <<>>, sent |-> <<>>, sleeps |-> 0,
     log |-> <<>>, wlog |-> <<>>, wret |-> NoWret, trace |-> <<>>]

InvCall(c) == [InvIdle EXCEPT !.call = c, !.pc = "loop", !.wlog = WrapperBefore(c)]

\* the wrapper's code after request has returned
InvFinish(r) ==
    IF r.pc = "done"
    THEN [r EXCEPT !.wlog = @ \o WrapperAfter(r.call, r.ret),
                   !.wret = WrapperReturn(r.call, r.ret)]
    ELSE r

\* the rest of the loop body returning, of a failed attempt, the error
\* kept from an earlier attempt when there is one
InvHandle_ReturnsEarlierError(r, dInner, oerr) ==
    LET dec == Decide(dInner, oerr, r.err)
        kept == IF dec.pc = "done" /\ dec.ret.err # NilErr /\ r.err # NilErr
                THEN [d |-> dec.ret.d, err |-> r.err] ELSE dec.ret
    IN  InvFinish([r EXCEPT !.results = Append(@, [d |-> dInner, err |-> oerr]),
                            !.pc = dec.pc, !.err = dec.err, !.ret = kept,
                            !.log = @ \o dec.logged,
                            !.trace = @ \o DecideEvents(dec)])

\* the rest of the loop body once _request has returned (dInner, oerr)
InvHandle(r, dInner, oerr) ==
    LET dec == Decide(dInner, oerr, r.err)
    IN  InvFinish([r EXCEPT !.results = Append(@, [d |-> dInner, err |-> oerr]),
                            !.pc = dec.pc, !.err = dec.err, !.ret = dec.ret,
                            !.log = @ \o dec.logged,
                            !.trace = @ \o DecideEvents(dec)])

\* the pass of the loop writing the request it sends to the debug log
InvSend_LogsRequest(pfc, r) ==
    LET n == r.counter + 1
        nr == NewRequest(r.call.method, Url(pfc.titleId, r.call.api, r.call.funcName),
                         r.call.reqBody, pfc.secret)
        entry == [level |-> "Debug",
                  text |-> DebugEntry(n).text \o <<" X-SecretKey: ", nr.req.secretKey>>]
    IN  IF nr.err = NilErr
        THEN [r EXCEPT !.counter = n, !.sent = Append(@, nr.req), !.pc = "inflight",
                       !.log = Append(@, entry), !.trace = @ \o <<"Debug", "Do">>]
        ELSE InvHandle([r EXCEPT !.counter = n, !.log = Append(@, entry),
                                 !.trace = Append(@, "Debug")], NilBytes, nr.err)

\* the pass of the loop counting in the counter of the first invocation
InvSend_SharedCounter(pfc, r) ==
    LET n == counter + 1
        nr == NewRequest(r.call.method, Url(pfc.titleId, r.call.api, r.call.funcName),
                         r.call.reqBody, pfc.secret)
    IN  IF nr.err = NilErr
        THEN [r EXCEPT !.counter = n, !.sent = Append(@, nr.req), !.pc = "inflight",
                       !.log = Append(@, DebugEntry(n)), !.trace = @ \o <<"Debug", "Do">>]
        ELSE InvHandle([r EXCEPT !.counter = n, !.log = Append(@, DebugEntry(n)),
                                 !.trace = Append(@, "Debug")], NilBytes, nr.err)

\* the pass of the loop sending, on a retry, a request body already read
InvSend_BodyConsumed(pfc, r) ==
    LET n == r.counter + 1
        nr == NewRequest(r.call.method, Url(pfc.titleId, r.call.api, r.call.funcName),
                         IF n = 1 THEN r.call.reqBody ELSE <<>>, pfc.secret)
    IN  IF nr.err = NilErr
        THEN [r EXCEPT !.counter = n, !.sent = Append(@, nr.req), !.pc = "inflight",
                       !.log = Append(@, DebugEntry(n)), !.trace = @ \o <<"Debug", "Do">>]
        ELSE InvHandle([r EXCEPT !.counter = n, !.log = Append(@, DebugEntry(n)),
                                 !.trace = Append(@, "Debug")], NilBytes, nr.err)

\* one pass of the loop up to hc.Do: counter++, the debug log, and _request
\* building the request; when the request cannot be built _request returns
\* at once and the rest of the loop body runs
InvSend(pfc, r) ==
    LET n == r.counter + 1
        nr == NewRequest(r.call.method, Url(pfc.titleId, r.call.api, r.call.funcName),
                         r.call.reqBody, pfc.secret)
    IN  IF nr.err = NilErr
        THEN [r EXCEPT !.counter = n, !.sent = Append(@, nr.req), !.pc = "inflight",
                       !.log = Append(@, DebugEntry(n)), !.trace = @ \o <<"Debug", "Do">>]
        ELSE InvHandle([r EXCEPT !.counter = n, !.log = Append(@, DebugEntry(n)),
                                 !.trace = Append(@, "Debug")], NilBytes, nr.err)

\* hc.Do returns with outcome o; the rest of _request and of the loop body
InvReceive(r, o) ==
    LET res == RequestResult(o, r.call.funcName)
    IN  InvHandle([r EXCEPT !.outcomes = Append(@, o), !.trace = Append(@, "Recv")],
                  res.d, res.err)

\* time.Sleep(1 * time.Second) returns
InvSleep(r) ==
    [r EXCEPT !.sleeps = @ + SleepSeconds, !.pc = "loop", !.trace = Append(@, "Sleep")]

\* the loop condition fails: return d, err
InvExit(r) ==
    InvFinish([r EXCEPT !.ret = [d |-> r.d, err |-> r.err], !.pc = "done",
                        !.trace = Append(@, "Return")])

\* the client of the twin: the same arguments to New but for the secret
OtherSecret == "0ther"
TwinPf == [pf EXCEPT !.secret = OtherSecret]

\* ------------------------------------------------------------------------
\* The first invocation, variable by variable
\* ------------------------------------------------------------------------
Init ==
    /\ args = NoArgs
    /\ newErr = NilErr
    /\ applied = <<>>
    /\ pf = NilPf
    /\ calls = 0
    /\ call = NoCall
    /\ pc = "new"
    /\ counter = 0
    /\ err = NilErr
    /\ d = NilBytes
    /\ ret = NoRet
    /\ outcomes = <<>>
    /\ results = <<>>
    /\ sent = <<>>
    /\ sleeps = 0
    /\ log = <<>>
    /\ wlog = <<>>
    /\ wret = NoWret
    /\ trace = <<>>
    /\ twin = InvIdle
    /\ inv2 = InvIdle

\* the first invocation as a record
Cur ==
    [call |-> call, pc |-> pc, counter |-> counter, err |-> err, d |-> d, ret |-> ret,
     outcomes |-> outcomes, results |-> results, sent |-> sent, sleeps |-> sleeps,
     log |-> log, wlog |-> wlog, wret |-> wret, trace |-> trace]

\* the first invocation becomes r
SetCur(r) ==
    /\ call' = r.call
    /\ pc' = r.pc
    /\ counter' = r.counter
    /\ err' = r.err
    /\ d' = r.d
    /\ ret' = r.ret
    /\ outcomes' = r.outcomes
    /\ results' = r.results
    /\ sent' = r.sent
    /\ sleeps' = r.sleeps
    /\ log' = r.log
    /\ wlog' = r.wlog
    /\ wret' = r.wret
    /\ trace' = r.trace

\* the first invocation and its twin, and the client each runs on
Pair == {"first", "twin"}
InvOf(who) == IF who = "first" THEN Cur ELSE twin
PfOf(who) == IF who = "first" THEN pf ELSE TwinPf

\* the owning process calls New(secret, titleId, catalogVersion, opts...)
Construct(s, t, v, o) ==
    /\ pc = "new"
    /\ LET n == New(s, t, v, o)
       IN  /\ pf' = n.pf
           /\ newErr' = n.err
           /\ applied' = n.applied
           /\ pc' = IF n.err = NilErr THEN "idle" ELSE "failed"
    /\ args' = [secret |-> s, titleId |-> t, catalogVersion |-> v, opts |-> o]
    /\ UNCHANGED <<calls, call, counter, err, d, ret, outcomes, results, sent, sleeps,
                   log, wlog, wret, trace, twin, inv2>>

\* an endpoint wrapper runs up to its call of
\* pf.request(method, api, funcName, reqBody); its first statement is a
\* call of pf.logger, which panics on a nil Logger
CallPanics ==
    /\ pc \in {"idle", "done"}
    /\ pf.logger = NilLogger
    /\ pc' = "panicked"
    /\ UNCHANGED <<args, newErr, applied, pf, calls, call, counter, err, d, ret,
                   outcomes, results, sent, sleeps, log, wlog, wret, trace, twin, inv2>>

\* a wrapper binding the no-op logger when it is called
Call_RebindsLogger(c) ==
    /\ pc \in {"idle", "done"}
    /\ pf.logger # NilLogger
    /\ calls < MaxCalls
    /\ calls' = calls + 1
    /\ \E a \in {InvCall(c)} : SetCur(a)
    /\ twin' = InvCall(c)
    /\ pf' = [pf EXCEPT !.logger = "noopLogger"]
    /\ UNCHANGED <<args, newErr, applied, inv2>>

Call(c) ==
    /\ pc \in {"idle", "done"}
    /\ pf.logger # NilLogger
    /\ calls < MaxCalls
    /\ calls' = calls + 1
    /\ \E a \in {InvCall(c)} : SetCur(a)
    /\ twin' = InvCall(c)
    /\ UNCHANGED <<args, newErr, applied, pf, inv2>>

\* what each step of the first invocation waits for: its own position
\* only; the rest of each step is assignments
CanSend == pc = "loop" /\ LoopGuard(counter)
CanReceive == pc = "inflight"
CanSleep == pc = "sleep"
CanExit == pc = "loop" /\ ~LoopGuard(counter)

Send ==
    /\ CanSend
    /\ \E after \in {[who \in Pair |-> InvSend(PfOf(who), InvOf(who))]} :
           /\ \E a \in {after["first"]} : SetCur(a)
           /\ twin' = after["twin"]
    /\ UNCHANGED <<args, newErr, applied, pf, calls, inv2>>

Receive(o) ==
    /\ CanReceive
    /\ \E after \in {[who \in Pair |-> InvReceive(InvOf(who), o)]} :
           /\ \E a \in {after["first"]} : SetCur(a)
           /\ twin' = after["twin"]
    /\ UNCHANGED <<args, newErr, applied, pf, calls, inv2>>

\* the loop going round without the call to time.Sleep
Sleep_Skipped ==
    /\ pc = "sleep"
    /\ pc' = "loop"
    /\ twin' = [twin EXCEPT !.pc = "loop"]
    /\ UNCHANGED <<args, newErr, applied, pf, calls, call, counter, err, d, ret,
                   outcomes, results, sent, sleeps, log, wlog, wret, trace, inv2>>

\* time.Sleep called twice on one wait
Sleep_Twice ==
    /\ pc = "sleep"
    /\ \E a \in {InvSleep(InvSleep(Cur))} : SetCur(a)
    /\ twin' = InvSleep(InvSleep(twin))
    /\ UNCHANGED <<args, newErr, applied, pf, calls, inv2>>

\* time.Sleep never returning
Sleep_Hangs ==
    /\ pc = "sleep"
    /\ FALSE
    /\ UNCHANGED vars

Sleep ==
    /\ CanSleep
    /\ \E a \in {InvSleep(Cur)} : SetCur(a)
    /\ twin' = InvSleep(twin)
    /\ UNCHANGED <<args, newErr, applied, pf, calls, inv2>>

LoopExit ==
    /\ CanExit
    /\ \E a \in {InvExit(Cur)} : SetCur(a)
    /\ twin' = InvExit(twin)
    /\ UNCHANGED <<args, newErr, applied, pf, calls, inv2>>

Next ==
    \/ \E s \in Secrets, t \in TitleIds, v \in CatalogVersions, o \in OptionLists :
          Construct(s, t, v, o)
    \/ CallPanics
    \/ \E c \in Calls : Call(c)
    \/ Send
    \/ \E o \in Outcomes : Receive(o)
    \/ Sleep
    \/ LoopExit

Spec == Init /\ [][Next]_vars

TypeOK ==
    /\ pc \in {"new", "failed", "panicked", "idle", "loop", "inflight", "sleep", "done"}
    /\ counter \in 0..retries + 1
    /\ calls \in 0..MaxCalls

\* ------------------------------------------------------------------------
\* Vocabulary of the properties
\* ------------------------------------------------------------------------
Rejected(o) == o.kind = "response" /\ o.code # 200
Accepted(o) == o.kind = "response" /\ o.code = 200
TransportFailure(o) == o.kind \in {"doError", "readError"}
RejectedWith(o, S) == Rejected(o) /\ o.body \in S

ConflictBodies == {B_Conflict}

Attempts == 1..Len(outcomes)
AllConflict(k) ==
    k <= Len(outcomes) /\ \A i \in 1..k : RejectedWith(outcomes[i], ConflictBodies)

\* the invocation returned right after the outcome of attempt i
ReturnedAfter(i) ==
    /\ i = Len(outcomes)
    /\ pc = "done"
    /\ Len(sent) = i
    /\ sleeps = (i - 1) * SleepSeconds

\* the error _request makes of a rejected response
ServiceErrorOf(o) == PlayFabError(o.body, call.funcName, o.code)

\* ------------------------------------------------------------------------
\* C1: as soon as an attempt receives HTTP 200 the invocation returns that
\* attempt's body, unmodified, with a nil error, and makes no further
\* attempt or sleep; a 200 on the first attempt means exactly one network
\* call.
\* ------------------------------------------------------------------------
C1_SuccessReturnsBody ==
    \A i \in Attempts :
        Accepted(outcomes[i]) =>
            /\ ReturnedAfter(i)
            /\ ret = [d |-> Bytes(outcomes[i].body), err |-> NilErr]

C1_Witness ==
    /\ pc = "done"
    /\ Len(outcomes) = 1
    /\ outcomes[1] = Resp(200, B_Data)
    /\ Len(sent) = 1
    /\ ret.d = Bytes(B_Data)

\* ------------------------------------------------------------------------
\* C2: when the retry budget is exhausted (all 4 attempts ended in a
\* retryable failure) the invocation returns a non-nil error, and that
\* error is the failure of the 4th attempt.
\* ------------------------------------------------------------------------
BudgetExhausted ==
    pc = "done" /\ Len(outcomes) = retries + 1 /\ sleeps = (retries + 1) * SleepSeconds

C2_ExhaustedReturnsLastFailure ==
    BudgetExhausted =>
        /\ ret.err # NilErr
        /\ ret.err \in {ServiceErrorOf(outcomes[retries + 1]),
                        ConvertToPlayFabErrorJson(ServiceErrorOf(outcomes[retries + 1])).err}

\* ------------------------------------------------------------------------
\* C3: if every attempt is rejected with a body whose status is "Conflict",
\* the invocation makes exactly 4 attempts and then gives up.
\* ------------------------------------------------------------------------
C3_ConflictFourAttempts ==
    (outcomes # <<>> /\ AllConflict(Len(outcomes))) =>
        /\ Len(sent) <= retries + 1
        /\ pc = "done" => (Len(outcomes) = retries + 1 /\ Len(sent) = retries + 1)
        /\ (pc = "loop" /\ Len(outcomes) < retries + 1) => ENABLED Send

C3_Witness ==
    /\ pc = "done"
    /\ Len(outcomes) = 4
    /\ AllConflict(4)
    /\ Len(sent) = 4

\* ------------------------------------------------------------------------
\* C4: for k in 0..3, if the first k attempts are rejected with Conflict
\* and attempt k+1 receives 200, the invocation makes exactly k+1 network
\* calls, sleeps exactly k times and returns the body of attempt k+1 with
\* a nil error.
\* ------------------------------------------------------------------------
C4_ConflictsThenSuccess ==
    \A k \in 0..retries :
        /\ (Len(outcomes) = k + 1 /\ AllConflict(k) /\ Accepted(outcomes[k + 1])) =>
               /\ pc = "done"
               /\ Len(sent) = k + 1
               /\ sleeps = k * SleepSeconds
               /\ ret = [d |-> Bytes(outcomes[k + 1].body), err |-> NilErr]
        /\ (k >= 1 /\ Len(outcomes) = k /\ AllConflict(k)) =>
               /\ pc \in {"sleep", "loop", "inflight"}
               /\ pc # "sleep" => sleeps = k * SleepSeconds

C4_Witness ==
    /\ pc = "done"
    /\ Len(outcomes) = 4
    /\ AllConflict(3)
    /\ outcomes[4] = Resp(200, B_Data)
    /\ sleeps = 3
    /\ Len(sent) = 4
    /\ ret = [d |-> Bytes(B_Data), err |-> NilErr]

\* ------------------------------------------------------------------------
\* Bodies by shape, for the properties
\* ------------------------------------------------------------------------
Markers ==
    {"Service Unavailable", "Bad Request", "Bad Gateway",
     "\"Service Unavailable\"", "\"Bad Request\"", "\"Bad Gateway\""}
HasMarker(b) == \E i \in 1..Len(b) : b[i] \in Markers

\* not valid JSON
NotJsonBodies ==
    {B_Html503, B_Text400, B_Garbage, B_Percent, B_PercentOops, B_Truncated, B_Empty}
\* a JSON object whose status is a string other than "Conflict"
OtherStatusBodies == {B_Unknown, B_UnknownGateway, B_StatusUnavailable}
\* a JSON object with no status, or a status that is not a string
ObjectNoStatusBodies == {B_NoStatus, B_NumStatus, B_ObjStatus, B_Data}
\* valid JSON that is not an object
NonObjectJsonBodies == {B_Null, B_JsonString, B_Array}

LastOutcome == outcomes[Len(outcomes)]

\* position of the " originalError: " separator in an error text, 0 if none
SeparatorAt(text) ==
    IF \E j \in 1..Len(text) : text[j] = " originalError: "
    THEN CHOOSE j \in 1..Len(text) : text[j] = " originalError: "
    ELSE 0

\* the invocation waited after attempt i instead of returning
WaitedAfter(i) ==
    \/ i = Len(outcomes) /\ pc = "sleep" /\ sleeps = (i - 1) * SleepSeconds
    \/ sleeps >= i * SleepSeconds

\* ------------------------------------------------------------------------
\* C5: a transport-level failure is retried like a Transient one: if every
\* attempt fails at transport level the invocation makes 4 attempts,
\* waiting between them, before it returns.
\* ------------------------------------------------------------------------
C5_TransportFailureRetried ==
    (pc = "done" /\ outcomes # <<>> /\ \A i \in Attempts : TransportFailure(outcomes[i])) =>
        /\ Len(outcomes) = retries + 1
        /\ sleeps >= retries * SleepSeconds

\* ------------------------------------------------------------------------
\* C6: when the invocation ends on a transport-level failure, the error it
\* returns is that failure itself, as the HTTP send produced it.
\* ------------------------------------------------------------------------
C6_TransportErrorVerbatim ==
    (pc = "done" /\ outcomes # <<>> /\ TransportFailure(LastOutcome)) =>
        ret.err = TransportErr(LastOutcome.text)

C8_MarkedStatusIsRetried ==
    \A i \in Attempts :
        (RejectedWith(outcomes[i], OtherStatusBodies) /\ HasMarker(outcomes[i].body)) =>
            WaitedAfter(i)

\* C8 as amended: such a response is returned at once as the ServiceError,
\* with no wait; a rejected response is Transient (the invocation waits one
\* second and, within the budget, retries) when its body does not decode as
\* a JSON object and the text of the decoding error contains one of the
\* three substrings.
TransientBodies == {B_Html503, B_Text400, B_JsonString}

C8_TransientOnlyWhenUndecodable ==
    \A i \in Attempts :
        /\ (RejectedWith(outcomes[i], OtherStatusBodies) /\ HasMarker(outcomes[i].body)) =>
               /\ ReturnedAfter(i)
               /\ ret = [d |-> Bytes(outcomes[i].body), err |-> ServiceErrorOf(outcomes[i])]
        /\ RejectedWith(outcomes[i], TransientBodies) =>
               /\ WaitedAfter(i)
               /\ (pc = "loop" /\ i = Len(outcomes) /\ i <= retries) => ENABLED Send
               /\ (pc = "done" /\ i = Len(outcomes)) => i = retries + 1

C8_Witness ==
    /\ pc = "done"
    /\ Len(outcomes) = 2
    /\ outcomes[1] = Resp(409, B_Text400)
    /\ outcomes[2] = Resp(409, B_UnknownGateway)
    /\ sleeps = 1
    /\ ret.err.kind = "PlayFabError"

\* ------------------------------------------------------------------------
\* C9: a rejected response whose body is a JSON object with a status that
\* is neither "Conflict" nor transient, such as {"status":"Unknown"}, makes
\* the invocation return without sleeping, after exactly one attempt when
\* it is the first, and the error returned is the ServiceError of that
\* attempt.
\* ------------------------------------------------------------------------
C9_FatalStatusReturnsServiceError ==
    \A i \in Attempts :
        RejectedWith(outcomes[i], {B_Unknown}) =>
            /\ ReturnedAfter(i)
            /\ ret.err = ServiceErrorOf(outcomes[i])
            /\ ret.err.kind = "PlayFabError"
            /\ ret.err.Body = Bytes(B_Unknown)
            /\ ret.err.RespCode = outcomes[i].code

C9_Witness ==
    /\ pc = "done"
    /\ outcomes = <<Resp(409, B_Unknown)>>
    /\ Len(sent) = 1
    /\ sleeps = 0
    /\ ret.err.kind = "PlayFabError"

ReturnedOnRejection ==
    /\ pc = "done"
    /\ outcomes # <<>>
    /\ Rejected(LastOutcome)
    /\ sleeps = (Len(outcomes) - 1) * SleepSeconds

C11_NonRetriedFailureSurfacedUnchanged ==
    ReturnedOnRejection =>
        /\ ret.err.RespCode = LastOutcome.code
        /\ ret.err.Body = Bytes(LastOutcome.body)

\* ------------------------------------------------------------------------
\* C12: in every reachable state of an invocation, whatever the outcomes
\* of its round trips, at most 4 (1 + retries) attempts have been made: the
\* counter, the requests sent, the outcomes received and the returns of
\* _request all number at most 4.
\* ------------------------------------------------------------------------
C12_AtMostFourAttempts ==
    /\ counter <= retries + 1
    /\ Len(sent) <= retries + 1
    /\ Len(outcomes) <= Len(sent)
    /\ Len(results) <= counter
    /\ Len(sent) <= counter

C12_Witness ==
    /\ pc = "inflight"
    /\ counter = 4
    /\ Len(sent) = 4
    /\ outcomes = <<Resp(503, B_Html503), Resp(409, B_Conflict), Resp(409, B_Text400)>>

\* ------------------------------------------------------------------------
\* C14: New returns a nil client and a non-nil error whenever secret,
\* titleId or catalogVersion is the empty string, sends nothing and applies
\* none of the options in doing so; when all three are non-empty it returns
\* a client holding them and a nil error.
\* ------------------------------------------------------------------------
SomeArgEmpty == args.secret = "" \/ args.titleId = "" \/ args.catalogVersion = ""

C14_NewValidatesArguments ==
    pc # "new" =>
        /\ SomeArgEmpty =>
               /\ pf = NilPf
               /\ newErr # NilErr
               /\ applied = <<>>
               /\ pc = "failed"
               /\ sent = <<>> /\ twin.sent = <<>> /\ inv2.sent = <<>>
               /\ calls = 0
        /\ ~SomeArgEmpty =>
               /\ ~pf.isNil
               /\ newErr = NilErr
               /\ pf.secret = args.secret
               /\ pf.titleId = args.titleId
               /\ pf.catalogVersion = args.catalogVersion
               /\ pc # "failed"

C14_Witness ==
    /\ pc = "failed"
    /\ args.secret # ""
    /\ args.catalogVersion # ""
    /\ args.titleId = ""
    /\ args.opts = <<"customLogger">>
    /\ pf = NilPf
    /\ newErr = Errorf(<<"titleId is required">>)

\* ------------------------------------------------------------------------
\* C15: an attempt that received a response is a success if and only if
\* the status is exactly 200; every other status (201, 304, 409, 503)
\* makes _request return a PlayFabError whose Body is the raw response
\* body, whose Method is the called function and whose RespCode is the
\* received status.
\* ------------------------------------------------------------------------
C15_SuccessIffStatus200 ==
    \A i \in 1..Len(outcomes) :
        outcomes[i].kind = "response" =>
            /\ i <= Len(results)
            /\ results[i].err = NilErr <=> outcomes[i].code = 200
            /\ outcomes[i].code = 200 => results[i].d = Bytes(outcomes[i].body)
            /\ outcomes[i].code # 200 =>
                   /\ results[i].err.kind = "PlayFabError"
                   /\ results[i].err.Body = Bytes(outcomes[i].body)
                   /\ results[i].err.Method = call.funcName
                   /\ results[i].err.RespCode = outcomes[i].code

C15_Witness ==
    /\ Len(outcomes) = 2
    /\ outcomes[1] = Resp(409, B_Conflict)
    /\ outcomes[2] = Resp(201, B_Data)
    /\ results[2].err.kind = "PlayFabError"
    /\ results[2].err.RespCode = 201
    /\ results[2].err.Body = Bytes(B_Data)
    /\ call.funcName = "GetPlayerStatistics"

ConflictAt(i) == RejectedWith(outcomes[i], ConflictBodies)
TransientAt(i) == RejectedWith(outcomes[i], TransientBodies)
RetryableAt(i) == ConflictAt(i) \/ TransientAt(i)
RetryableCount == Cardinality({i \in Attempts : RetryableAt(i)})
TransientCount == Cardinality({i \in Attempts : TransientAt(i)})
\* the waits begun so far: the sleeps done and the one about to be made
WaitsBegun == sleeps \div SleepSeconds + (IF pc = "sleep" THEN 1 ELSE 0)
EventCount(e) == Cardinality({j \in 1..Len(trace) : trace[j] = e})

DebugLog == SelectSeq(log, LAMBDA e : e.level = "Debug")
ErrorLog == SelectSeq(log, LAMBDA e : e.level = "Error")

DebugBeforeEachSend ==
    /\ Len(DebugLog) = counter
    /\ \A n \in 1..Len(DebugLog) :
           DebugLog[n].text = <<"Starting retry ", ToString(n), " for playfab request">>
    /\ EventCount("Debug") = counter
    /\ EventCount("Do") = Len(sent)
    /\ \A j \in 1..Len(trace) : trace[j] = "Do" => (j > 1 /\ trace[j - 1] = "Debug")

C20_EachWaitLogsError ==
    /\ DebugBeforeEachSend
    /\ Len(ErrorLog) = WaitsBegun

\* C20 as amended: the debug entries are as claimed; an error entry is
\* emitted only for a wait on a Transient failure (a body that does not
\* decode as a JSON object and whose error text has one of the three
\* substrings): exactly one, right after the response is handled and
\* before the sleep, its text being "waiting for retry after error - "
\* followed by the text of the decoding error, which ends in the body.  A
\* wait on a Conflict emits no log entry.
NthTransient(k) ==
    CHOOSE i \in Attempts :
        TransientAt(i) /\ Cardinality({j \in 1..i : TransientAt(j)}) = k

C20_TransientWaitLogsError ==
    /\ DebugBeforeEachSend
    /\ Len(log) = Len(DebugLog) + Len(ErrorLog)
    /\ Len(ErrorLog) = TransientCount
    /\ EventCount("Error") = TransientCount
    /\ \A j \in 1..Len(trace) :
           trace[j] = "Error" =>
               /\ j > 1 /\ trace[j - 1] = "Recv"
               /\ IF j = Len(trace) THEN pc = "sleep" ELSE trace[j + 1] = "Sleep"
    /\ \A j \in 2..Len(trace) :
           (trace[j] = "Sleep" /\ trace[j - 1] = "Recv") =>
               ConflictAt(Cardinality({m \in 1..j : trace[m] = "Recv"}))
    /\ \A k \in 1..Len(ErrorLog) :
           LET text == ErrorLog[k].text
               body == outcomes[NthTransient(k)].body
           IN  /\ text[1] = "waiting for retry after error - "
               /\ SeparatorAt(text) > 2
               /\ SubSeq(text, SeparatorAt(text) + 1, Len(text)) = body

C20_Witness ==
    /\ pc = "done"
    /\ outcomes = <<Resp(409, B_Conflict), Resp(503, B_Html503), Resp(200, B_Data)>>
    /\ Len(DebugLog) = 3
    /\ Len(ErrorLog) = 1
    /\ trace = <<"Debug", "Do", "Recv", "Sleep", "Debug", "Do", "Recv", "Error", "Sleep",
                 "Debug", "Do", "Recv", "Return">>

\* ------------------------------------------------------------------------
\* C17: the secret key is never logged.  The twin is the same invocation on
\* a client that differs from pf in its secret only and is given the same
\* outcomes; at every step the log entries (level and text) of request and
\* of the endpoint wrapper are the same for both, while the requests they
\* send differ in the secret they carry.
\* ------------------------------------------------------------------------
C17_LogsIndependentOfSecret ==
    pc \in {"loop", "inflight", "sleep", "done"} =>
        /\ TwinPf.secret # pf.secret
        /\ [TwinPf EXCEPT !.secret = pf.secret] = pf
        /\ twin.call = call
        /\ twin.outcomes = outcomes
        /\ twin.pc = pc
        /\ twin.log = log
        /\ twin.wlog = wlog
        /\ Len(twin.sent) = Len(sent)
        /\ \A i \in 1..Len(sent) :
               /\ sent[i].secretKey = pf.secret
               /\ twin.sent[i].secretKey = TwinPf.secret
               /\ [twin.sent[i] EXCEPT !.secretKey = pf.secret] = sent[i]

C17_Witness ==
    /\ pc = "done"
    /\ call.funcName = "GrantItemsToUser"
    /\ outcomes = <<Resp(503, B_Html503), Resp(409, B_Unknown)>>
    /\ twin.outcomes = outcomes
    /\ twin.sent # sent
    /\ twin.log = log
    /\ Len(log) = 3
    /\ twin.wlog = wlog
    /\ Len(wlog) = 3

\* ------------------------------------------------------------------------
\* The invocation as the Go scheduler runs it: the goroutine running
\* request eventually takes its next step, be it the next pass of the
\* loop, the return of the round trip handed to hc.Do (with some outcome),
\* the return of time.Sleep or the return of request.
\* ------------------------------------------------------------------------
\* the constructions and the calls of the runs under fairness
LiveTitleIds == {"ABC1", "bad host"}
LiveCalls == {c \in Calls : c.funcName = "GrantItemsToUser"}

NextLive ==
    \/ \E t \in LiveTitleIds : Construct("s3cr3t", t, "v1", <<>>)
    \/ \E c \in LiveCalls : Call(c)
    \/ Send
    \/ \E o \in Outcomes : Receive(o)
    \/ Sleep
    \/ LoopExit

\* the next step of the goroutine running request
Step == Send \/ (\E o \in Outcomes : Receive(o)) \/ Sleep \/ LoopExit

LiveSpec == Init /\ [][NextLive]_vars /\ WF_vars(Step)

\* ------------------------------------------------------------------------
\* C13: every invocation of request eventually returns to its caller,
\* whatever the outcomes of its round trips, given that each round trip
\* returns; once it has returned, nothing is sent, slept or logged by it:
\* the requests sent, the sleeps and the log stay as they are until the
\* client is called again.
\* ------------------------------------------------------------------------
Running == pc \in {"loop", "inflight", "sleep"}

QuietOnceDone ==
    pc = "done" =>
        \/ /\ pc' = "done"
           /\ sent' = sent /\ sleeps' = sleeps /\ log' = log /\ counter' = counter
           /\ ret' = ret
        \/ pc' = "loop" /\ calls' = calls + 1
        \/ pc' = "panicked"

C13_EventuallyDoneThenQuiet == (Running ~> pc = "done") /\ [][QuietOnceDone]_vars

C13_Witness ==
    /\ pc = "done"
    /\ calls = 2
    /\ Len(sent) = 4
    /\ sleeps = 4
    /\ outcomes[4] = Resp(503, B_Html503)
    /\ ~ENABLED Send /\ ~ENABLED Sleep /\ ~ENABLED LoopExit

\* ------------------------------------------------------------------------
\* Two invocations running concurrently on one client: the steps of the
\* second invocation, a goroutine of its own with its own locals, and the
\* specification that interleaves them with the steps of the first.
\* ------------------------------------------------------------------------
FirstInvocation ==
    <<args, newErr, applied, pf, calls, call, pc, counter, err, d, ret, outcomes,
      results, sent, sleeps, log, wlog, wret, trace, twin>>

\* what each step of the second invocation waits for: its own position
\* only (and, to be called, a client); the rest of each step is assignments
CanCall2 ==
    /\ pc \in {"idle", "loop", "inflight", "sleep", "done"}
    /\ pf.logger # NilLogger
    /\ inv2.pc = "idle"

\* the next pass of the second invocation held back while the first sleeps
CanSend2_WaitsForFirst == pc # "sleep" /\ inv2.pc = "loop" /\ LoopGuard(inv2.counter)

CanSend2 == inv2.pc = "loop" /\ LoopGuard(inv2.counter)
CanReceive2 == inv2.pc = "inflight"
CanSleep2 == inv2.pc = "sleep"
CanExit2 == inv2.pc = "loop" /\ ~LoopGuard(inv2.counter)

Call2(c) ==
    /\ CanCall2
    /\ inv2' = InvCall(c)
    /\ UNCHANGED FirstInvocation

Send2 ==
    /\ CanSend2
    /\ inv2' = InvSend(pf, inv2)
    /\ UNCHANGED FirstInvocation

Receive2(o) ==
    /\ CanReceive2
    /\ inv2' = InvReceive(inv2, o)
    /\ UNCHANGED FirstInvocation

Sleep2 ==
    /\ CanSleep2
    /\ inv2' = InvSleep(inv2)
    /\ UNCHANGED FirstInvocation

LoopExit2 ==
    /\ CanExit2
    /\ inv2' = InvExit(inv2)
    /\ UNCHANGED FirstInvocation

\* the outcomes and the calls of the concurrent runs
ConcOutcomes ==
    {Resp(200, B_Data), Resp(409, B_Conflict), Resp(503, B_Html503), Resp(409, B_Unknown)}
Calls2 == {c \in Calls : c.funcName = "GetPlayerStatistics"}

NextConc ==
    \/ Construct("s3cr3t", "ABC1", "v1", <<"customLogger">>)
    \/ \E c \in Calls : Call(c)
    \/ Send
    \/ \E o \in ConcOutcomes : Receive(o)
    \/ Sleep
    \/ LoopExit
    \/ \E c \in Calls2 : Call2(c)
    \/ Send2
    \/ \E o \in ConcOutcomes : Receive2(o)
    \/ Sleep2
    \/ LoopExit2

SpecConc == Init /\ [][NextConc]_vars

\* ------------------------------------------------------------------------
\* What an invocation does with a sequence of outcomes when it runs alone:
\* whether it returned on one of them, what it returned, and the value of
\* its err after the last one.
\* ------------------------------------------------------------------------
RECURSIVE RunAlone(_, _, _)
RunAlone(funcName, os, errBefore) ==
    IF os = <<>> THEN [returned |-> FALSE, ret |-> NoRet, err |-> errBefore]
    ELSE LET res == RequestResult(Head(os), funcName)
             dec == Decide(res.d, res.err, errBefore)
         IN  IF dec.pc = "done"
             THEN [returned |-> TRUE, ret |-> dec.ret, err |-> dec.err]
             ELSE RunAlone(funcName, Tail(os), dec.err)

\* the invocation r has done what its own outcomes alone determine
OwnOutcomesOnly(r) ==
    LET alone == RunAlone(r.call.funcName, r.outcomes, NilErr)
    IN  /\ r.counter <= retries + 1
        /\ Len(r.sent) <= retries + 1
        /\ r.counter = Len(r.sent)
        /\ Len(r.outcomes) = IF r.pc = "inflight" THEN Len(r.sent) - 1 ELSE Len(r.sent)
        /\ r.err = alone.err
        /\ r.d = NilBytes
        /\ r.pc = "done" =>
               r.ret = IF alone.returned THEN alone.ret
                       ELSE [d |-> NilBytes, err |-> alone.err]
        /\ r.pc # "done" => (~alone.returned /\ r.ret = NoRet)

\* ------------------------------------------------------------------------
\* C16: when two invocations of request run concurrently on one client,
\* under every interleaving each makes at most 4 attempts and what it
\* returns is determined by the outcomes of its own attempts only; a step
\* of one invocation leaves the counter, the error, the result and every
\* other local of the other invocation unchanged.
\* ------------------------------------------------------------------------
C16_StepsAreLocal ==
    /\ inv2' # inv2 =>
           UNCHANGED <<pf, call, pc, counter, err, d, ret, outcomes, results, sent,
                       sleeps, log, wlog, wret>>
    /\ Cur' # Cur => inv2' = inv2

C16_ConcurrentInvocationsIndependent ==
    /\ [](pc \in {"loop", "inflight", "sleep", "done"} => OwnOutcomesOnly(Cur))
    /\ [](inv2.pc # "idle" => OwnOutcomesOnly(inv2))
    /\ [][C16_StepsAreLocal]_vars

C16_Witness ==
    /\ pc = "inflight"
    /\ counter = 4
    /\ outcomes = <<Resp(409, B_Conflict), Resp(409, B_Conflict), Resp(409, B_Conflict)>>
    /\ err = NilErr
    /\ inv2.pc = "sleep"
    /\ inv2.counter = 2
    /\ inv2.outcomes = <<Resp(503, B_Html503), Resp(503, B_Html503)>>
    /\ inv2.err # NilErr

\* ------------------------------------------------------------------------
\* C21: the retry policy is the same for Conflict and for Transient: for
\* n in 1..4, a run whose first n attempts all end in Conflict and a run
\* whose first n attempts all end in Transient have made the same number
\* of attempts and begun the same number of sleeps (n of each), neither
\* returns before n = 4, and both return a non-nil error when n = 4.
\* ------------------------------------------------------------------------
AllTransient(k) ==
    k <= Len(outcomes) /\ \A i \in 1..k : RejectedWith(outcomes[i], TransientBodies)

C21_SamePolicyForBothCauses ==
    \A n \in 1..retries + 1 :
        (Len(outcomes) = n /\ (AllConflict(n) \/ AllTransient(n))) =>
            /\ Len(sent) = IF pc = "inflight" THEN n + 1 ELSE n
            /\ WaitsBegun = n
            /\ pc = "done" => (n = retries + 1 /\ ret.err # NilErr)

\* ------------------------------------------------------------------------
\* C22: the decision at an attempt depends on that attempt's outcome only:
\* if attempts 1..k-1 ended in retryable failures (Conflict or Transient)
\* and attempt k receives a Fatal response (a JSON object whose status is
\* a string other than "Conflict"), the invocation stops after exactly k
\* attempts and k-1 sleeps and returns the ServiceError of attempt k.
\* ------------------------------------------------------------------------
FatalAfterRetries(k) ==
    /\ k \in Attempts
    /\ \A i \in 1..k - 1 : RetryableAt(i)
    /\ RejectedWith(outcomes[k], OtherStatusBodies)

C22_FatalAfterRetriesReturnsItsOwnError ==
    \A k \in 1..retries + 1 :
        FatalAfterRetries(k) =>
            /\ pc = "done"
            /\ Len(outcomes) = k
            /\ Len(sent) = k
            /\ counter = k
            /\ sleeps = (k - 1) * SleepSeconds
            /\ ret.err = PlayFabError(outcomes[k].body, call.funcName, outcomes[k].code)
            /\ ret.d = Bytes(outcomes[k].body)
            /\ \A i \in 1..k - 1 : ret.err.Body # Bytes(outcomes[i].body)

C22_Witness ==
    /\ pc = "done"
    /\ outcomes = <<Resp(503, B_Html503), Resp(409, B_Conflict), Resp(409, B_Text400),
                    Resp(409, B_UnknownGateway)>>
    /\ ret.err.RespCode = 409
    /\ ret.err.Body = Bytes(B_UnknownGateway)
    /\ sleeps = 3

\* ------------------------------------------------------------------------
\* C23: all attempts of one invocation are sent with the method, the API
\* category, the function name and the request body of the first attempt,
\* which are those of the call; each carries the client's title id in the
\* host and the client's secret in the X-SecretKey header.
\* ------------------------------------------------------------------------
C23_RetriesReplayTheCall ==
    \A i \in 1..Len(sent) :
        /\ sent[i] = sent[1]
        /\ sent[i].method = call.method
        /\ sent[i].url = <<"https://", pf.titleId, ".playfabapi.com/", call.api, "/",
                           call.funcName>>
        /\ sent[i].body = call.reqBody
        /\ sent[i].secretKey = pf.secret
        /\ sent[i].contentType = "application/json"

C23_Witness ==
    /\ Len(sent) = 4
    /\ outcomes = <<Resp(409, B_Conflict), Resp(503, B_Html503), Resp(409, B_JsonString)>>
    /\ sent[4] = sent[1]
    /\ sent[4].method = "GET"
    /\ sent[4].body = <<"{", "}">>
    /\ sent[4].secretKey = "s3cr3t"

\* ------------------------------------------------------------------------
\* C24: after New has returned, no step of request or of an endpoint
\* wrapper, whatever the outcome, changes the client's secret, title id,
\* catalog version, logger or transport handle.
\* ------------------------------------------------------------------------
ClientKept ==
    pc # "new" =>
        /\ pf'.secret = pf.secret
        /\ pf'.titleId = pf.titleId
        /\ pf'.catalogVersion = pf.catalogVersion
        /\ pf'.logger = pf.logger
        /\ pf'.hc = pf.hc
        /\ pf'.isNil = pf.isNil

C24_ClientImmutableAfterNew == [][ClientKept]_vars

C24_Witness ==
    /\ pc = "done"
    /\ calls = 2
    /\ outcomes = <<Resp(409, B_Conflict), Resp(409, B_NoStatus)>>
    /\ pf = [isNil |-> FALSE, secret |-> "s3cr3t", catalogVersion |-> "v1",
             titleId |-> "ABC1", logger |-> "otherLogger", hc |-> "http.Client"]
    /\ args.opts = <<"customLogger", "otherLogger">>

\* ------------------------------------------------------------------------
\* C27: within one invocation the attempts are strictly sequential: at
\* most one request is in flight, and a request after the first is handed
\* to hc.Do only after the outcome of the previous one was received and
\* the sleep that followed it has returned.  The sleep and the round trip
\* block only their own invocation: while one invocation sleeps or waits
\* for a response, the other invocation on the same client can take its
\* next step.
\* ------------------------------------------------------------------------
Sequential(r) ==
    /\ Len(r.sent) - Len(r.outcomes) = IF r.pc = "inflight" THEN 1 ELSE 0
    /\ r.pc = "inflight" => r.sleeps = (Len(r.sent) - 1) * SleepSeconds
    /\ \A j \in 1..Len(r.trace) :
           r.trace[j] = "Do" =>
               \/ j = 2
               \/ /\ j > 4
                  /\ r.trace[j - 2] = "Sleep"
                  /\ r.trace[j - 3] \in {"Recv", "Error"}
                  /\ \E m \in 1..j - 3 : r.trace[m] = "Recv"

Blocked(p) == p \in {"sleep", "inflight"}

OthersNotBlocked ==
    /\ (Blocked(pc) /\ inv2.pc = "idle") => CanCall2
    /\ (Blocked(pc) /\ inv2.pc = "loop") => (CanSend2 \/ CanExit2)
    /\ (Blocked(pc) /\ inv2.pc = "inflight") => CanReceive2
    /\ (Blocked(pc) /\ inv2.pc = "sleep") => CanSleep2
    /\ (Blocked(inv2.pc) /\ pc = "loop") => (CanSend \/ CanExit)
    /\ (Blocked(inv2.pc) /\ pc = "inflight") => CanReceive
    /\ (Blocked(inv2.pc) /\ pc = "sleep") => CanSleep

C27_AttemptsSequentialSleepLocal ==
    /\ pc \in {"loop", "inflight", "sleep", "done"} => Sequential(Cur)
    /\ inv2.pc # "idle" => Sequential(inv2)
    /\ OthersNotBlocked

C27_Witness ==
    /\ pc = "sleep"
    /\ sleeps = 1
    /\ Len(sent) = 2
    /\ inv2.pc = "loop"
    /\ inv2.counter = 2
    /\ inv2.trace = <<"Debug", "Do", "Recv", "Sleep", "Debug", "Do", "Recv", "Error",
                      "Sleep">>
    /\ CanSend2

\* ------------------------------------------------------------------------
\* The endpoint wrappers: each is called on a client made by New, runs
\* pf.request and makes its result of what request returned.
\* ------------------------------------------------------------------------
WrapperCall(method, funcName) ==
    [method |-> method, api |-> "Server", funcName |-> funcName, reqBody |-> <<"{", "}">>,
     arg |-> <<>>]

ExtractingWrappers ==
    {"GetUserReadOnlyData", "GrantItemsToUser", "GetTitleInternalData", "GetTitleData",
     "GetPlayerTags"}

WrapCalls ==
    {WrapperCall("POST", f) : f \in ExtractingWrappers \cup WriteWrappers}
        \cup {WrapperCall("GET", "GetPlayerStatistics")}

\* the entries of the list given to RevokeInventoryItems: the nil map, an
\* empty map, a map naming an item instance
NilItem == "nil"
Items == {NilItem, "{}", "{\"ItemInstanceId\":\"A\"}"}
MaxItems == 3
ItemLists == UNION {[1..n -> Items] : n \in 0..MaxItems}

\* the loop copying every entry of the list, nil ones included
RECURSIVE NonNil_KeepsAll(_)
NonNil_KeepsAll(items) ==
    IF items = <<>> THEN <<>>
    ELSE <<Head(items)>> \o NonNil_KeepsAll(Tail(items))

\* the loop building newRevokeInventoryItems
RECURSIVE NonNil(_)
NonNil(items) ==
    IF items = <<>> THEN <<>>
    ELSE (IF Head(items) # NilItem THEN <<Head(items)>> ELSE <<>>) \o NonNil(Tail(items))

\* the elements of a JSON array, separated by commas
RECURSIVE Join(_)
Join(elems) ==
    IF Len(elems) <= 1 THEN elems
    ELSE <<Head(elems), ",">> \o Join(Tail(elems))

\* json.Marshal(map[string]interface{}{"Items": newRevokeInventoryItems})
MarshalItems(list) == <<"{", "\"Items\"", ":", "[">> \o Join(list) \o <<"]", "}">>

RevokeCall(items) ==
    [method |-> "POST", api |-> "Server", funcName |-> "RevokeInventoryItems",
     reqBody |-> MarshalItems(NonNil(items)), arg |-> items]

\* RevokeInventoryItems(items) up to its call of pf.request, or to its
\* return when nothing is left to revoke
InvRevoke(items) ==
    IF Len(NonNil(items)) = 0
    THEN [InvIdle EXCEPT !.call = [NoCall EXCEPT !.funcName = "RevokeInventoryItems",
                                                 !.arg = items],
                         !.pc = "done", !.wret = NoWret]
    ELSE InvCall(RevokeCall(items))

CallRevoke(items) ==
    /\ pc \in {"idle", "done"}
    /\ Len(NonNil(items)) > 0 => pf.logger # NilLogger
    /\ calls < MaxCalls
    /\ calls' = calls + 1
    /\ \E a \in {InvRevoke(items)} : SetCur(a) /\ twin' = a
    /\ UNCHANGED <<args, newErr, applied, pf, inv2>>

\* what the server answers to a wrapper's request
WrapOutcomes ==
    {Resp(200, b) : b \in {B_Data, B_DataData, B_DataTags, B_DataTagsNum, B_DataStats,
                           B_DataItems, B_BomDataData, B_NoStatus, B_Null, B_Garbage}}
        \cup {Resp(409, B_Conflict), Resp(409, B_Unknown)}

NextWrappers ==
    \/ Construct("s3cr3t", "ABC1", "v1", <<"customLogger">>)
    \/ \E c \in WrapCalls : Call(c)
    \/ \E items \in ItemLists : CallRevoke(items)
    \/ Send
    \/ \E o \in WrapOutcomes : Receive(o)
    \/ Sleep
    \/ LoopExit

SpecWrappers == Init /\ [][NextWrappers]_vars

\* the last outcome of the invocation, which has returned, is HTTP 200 with
\* a body in S
AcceptedWith(S) ==
    /\ pc = "done"
    /\ Len(outcomes) > 0
    /\ Accepted(outcomes[Len(outcomes)])
    /\ outcomes[Len(outcomes)].body \in S

\* the success envelopes that hold the field the wrapper extracts, in the
\* shape it expects
ExpectedEnvelopes(funcName) ==
    CASE funcName = "GetTitleData" -> {B_DataData, B_BomDataData}
      [] funcName \in {"GetTitleInternalData", "GetUserReadOnlyData"} -> {B_DataData}
      [] funcName = "GetPlayerTags" -> {B_DataTags}
      [] funcName = "GrantItemsToUser" -> {B_DataItems}
      [] funcName = "GetPlayerStatistics" -> {B_DataStats}
      [] OTHER -> {}

SuccessBodies == {o.body : o \in {w \in WrapOutcomes : Accepted(w)}}

\* ------------------------------------------------------------------------
\* C25: every endpoint wrapper that extracts a field from the success
\* envelope returns a non-nil error when the expected key is absent or of
\* the wrong shape (no top-level data, no data.Data for GetTitleData and
\* GetTitleInternalData, no data.Tags for GetPlayerTags); none returns an
\* empty result with a nil error in that case.
\* ------------------------------------------------------------------------
C25_MissingKeyIsAnError ==
    \A f \in ExtractingWrappers \cup {"GetPlayerStatistics"} :
        (call.funcName = f /\ AcceptedWith(SuccessBodies \ ExpectedEnvelopes(f)))
            => wret.err # NilErr

\* ------------------------------------------------------------------------
\* C26: a write wrapper (UpdateUserReadOnlyData, UpdatePlayerStatistics,
\* SendPushNotification, AddPlayerTag, RemovePlayerTag) returns a nil error
\* only if some attempt of its call received HTTP 200; it does not report
\* success when all 4 attempts were rejected with Conflict.
\* ------------------------------------------------------------------------
C26_WriteSucceedsOnlyOn200 ==
    (pc = "done" /\ call.funcName \in WriteWrappers /\ wret.err = NilErr)
        => \E i \in Attempts : Accepted(outcomes[i])

\* ------------------------------------------------------------------------
\* C28: RevokeInventoryItems called with an empty list, or a list whose
\* entries are all nil, performs no network call and returns a nil error;
\* otherwise every request it sends carries exactly the non-nil entries, in
\* their original order, and all of them belong to one call of request to
\* RevokeInventoryItems.
\* ------------------------------------------------------------------------
KeptItems == SelectSeq(call.arg, LAMBDA x : x # NilItem)

C29_StatisticsReturned ==
    (call.funcName = "GetPlayerStatistics" /\ AcceptedWith({B_DataStats}))
        => /\ wret.err = NilErr
           /\ wret.val = Val(<<"[", "{", "\"Data\"", ":", "5", "}", ",", "{", "}", "]">>)

\* ------------------------------------------------------------------------
\* The package-level request function (the API that takes the title, the
\* secret and the logger on every call), as a function of the outcomes of
\* its round trips
\* ------------------------------------------------------------------------
Retries == 3
ConflictStatus == "\"Conflict\""

\* &PlayFabError{originError, Body}
LegacyPlayFabError(resBody, code) ==
    [kind |-> "PlayFabError",
     text |-> <<"Failed To Process Request With status code ", ToString(code), ": ">>
              \o resBody,
     Body |-> Bytes(resBody), Method |-> "", RespCode |-> 0]

\* the package-level _request after hc.Do has returned outcome o
LegacyRequestResult(o) ==
    IF o.kind # "response" THEN [d |-> NilBytes, err |-> TransportErr(o.text)]
    ELSE IF o.code # 200
         THEN [d |-> Bytes(o.body), err |-> LegacyPlayFabError(o.body, o.code)]
    ELSE [d |-> Bytes(o.body), err |-> NilErr]

\* isConflictError(oerr) taking no status for a conflict
LegacyIsConflictError_NeverConflict(oerr) ==
    IF oerr.kind # "PlayFabError"
    THEN [err |-> Errorf(<<"Failed to convert to playfab error">>), isConflict |-> FALSE]
    ELSE LET u == Unmarshal(oerr.Body.bytes)
             errStatus == Lookup(u.map, "\"status\"")
         IN  IF u.err # <<>>
             THEN [err |-> Errorf(u.err \o <<" originalError: ">> \o oerr.Body.bytes),
                   isConflict |-> FALSE]
             ELSE IF ~TypeAssert(errStatus, "string")
                  THEN [err |-> Errorf(<<"Failed to parse status from error">>),
                        isConflict |-> FALSE]
             ELSE [err |-> NilErr, isConflict |-> FALSE]

\* the package-level isConflictError(oerr)
LegacyIsConflictError(oerr) ==
    IF oerr.kind # "PlayFabError"
    THEN [err |-> Errorf(<<"Failed to convert to playfab error">>), isConflict |-> FALSE]
    ELSE LET u == Unmarshal(oerr.Body.bytes)
             errStatus == Lookup(u.map, "\"status\"")
         IN  IF u.err # <<>>
             THEN [err |-> Errorf(u.err \o <<" originalError: ">> \o oerr.Body.bytes),
                   isConflict |-> FALSE]
             ELSE IF ~TypeAssert(errStatus, "string")
                  THEN [err |-> Errorf(<<"Failed to parse status from error">>),
                        isConflict |-> FALSE]
             ELSE IF errStatus[1] # ConflictStatus
                  THEN [err |-> NilErr, isConflict |-> FALSE]
             ELSE [err |-> NilErr, isConflict |-> TRUE]

\* the run so far: passes of the loop, requests sent, outcomes used, seconds
\* slept, debug entries, whether it has returned and what
LegacyStart ==
    [counter |-> 0, sent |-> 0, used |-> 0, sleeps |-> 0, log |-> <<>>,
     returned |-> FALSE, ret |-> NoRet]

\* the loop body once _request has returned (dInner, oerr): return, or
\* time.Sleep and go round
LegacyHandle(run, dInner, oerr) ==
    IF oerr = NilErr
    THEN [run EXCEPT !.returned = TRUE, !.ret = [d |-> dInner, err |-> NilErr]]
    ELSE LET ice == LegacyIsConflictError(oerr)
         IN  IF ice.err # NilErr
             THEN [run EXCEPT !.returned = TRUE, !.ret = [d |-> dInner, err |-> ice.err]]
             ELSE IF ~ice.isConflict
                  THEN [run EXCEPT !.returned = TRUE, !.ret = [d |-> dInner, err |-> oerr]]
             ELSE [run EXCEPT !.sleeps = @ + 1]

\* the loop of request over the outcomes outs of its round trips; it stops
\* where the next round trip has no outcome yet.  The results d and err are
\* never assigned: the loop declares its own d and err.
RECURSIVE LegacyLoop(_, _, _, _, _)
LegacyLoop(c, titleId, secretKey, outs, run) ==
    IF run.returned THEN run
    ELSE IF ~(run.counter <= Retries)
         THEN [run EXCEPT !.returned = TRUE, !.ret = NoRet]
    ELSE LET n == run.counter + 1
             nr == NewRequest(c.method, Url(titleId, c.api, c.funcName), c.reqBody, secretKey)
             entered == [run EXCEPT !.counter = n, !.log = Append(@, DebugEntry(n))]
         IN  IF nr.err # NilErr
             THEN LegacyLoop(c, titleId, secretKey, outs, LegacyHandle(entered, NilBytes, nr.err))
             ELSE IF run.used = Len(outs)
                  THEN [entered EXCEPT !.sent = @ + 1]
             ELSE LET res == LegacyRequestResult(outs[run.used + 1])
                  IN  LegacyLoop(c, titleId, secretKey, outs,
                                 LegacyHandle([entered EXCEPT !.sent = @ + 1, !.used = @ + 1],
                                              res.d, res.err))

\* request(method, titleId, api, funcName, reqBody, secretKey, logger)
LegacyRequest(c, titleId, secretKey, outs) ==
    LegacyLoop(c, titleId, secretKey, outs, LegacyStart)

\* the package-level request given the arguments and the outcomes of the
\* invocation of PlayFab.request
Legacy == LegacyRequest(call, pf.titleId, pf.secret, outcomes)

\* both made the same number of attempts and sleeps and returned the same
\* body and the same nil or non-nil error
SameAsLegacy ==
    /\ Legacy.returned
    /\ Legacy.used = Len(outcomes)
    /\ Legacy.counter = counter
    /\ Legacy.sent = Len(sent)
    /\ Legacy.sleeps = sleeps
    /\ Legacy.ret.d = ret.d
    /\ (Legacy.ret.err = NilErr) <=> (ret.err = NilErr)

\* bodies that are JSON objects
ObjectBodies ==
    {B_Conflict, B_Unknown, B_UnknownGateway, B_StatusUnavailable, B_NoStatus,
     B_NumStatus, B_ObjStatus, B_Data}
\* bodies that are not JSON and hold one of the three substrings
NonJsonTransientBodies == {B_Html503, B_Text400, B_Percent}
\* bodies that do not decode into a JSON object, and whose decoding error,
\* which quotes the body, holds one of the three substrings
UndecodableTransientBodies == {B_Html503, B_Text400, B_JsonString}

OnlyAcceptedOrObject ==
    \A i \in Attempts : Accepted(outcomes[i]) \/ RejectedWith(outcomes[i], ObjectBodies)

\* ------------------------------------------------------------------------
\* C30: for every response sequence made only of HTTP 200 responses and
\* non-200 responses with JSON-object bodies, the package-level request
\* function and PlayFab.request perform the same number of attempts and
\* sleeps and return the same body and the same nil or non-nil error; they
\* differ only on non-JSON bodies containing the transient substrings.
\* ------------------------------------------------------------------------
C30_LegacyDiffersOnlyOnNonJson ==
    pc = "done" /\ call.funcName # "" =>
        /\ OnlyAcceptedOrObject => SameAsLegacy
        /\ ~SameAsLegacy =>
               \E i \in Attempts : RejectedWith(outcomes[i], NonJsonTransientBodies)

\* C30: as amended: they behave alike on sequences of HTTP 200 responses
\* and non-200 responses with JSON-object bodies, and in general they
\* differ exactly when PlayFab.request has retried a non-200 response
\* whose body does not decode into a JSON object (not JSON at all, or a
\* JSON value that is not an object) and whose decoding error holds one of
\* the three substrings.
C30_LegacyDiffersOnlyOnUndecodable ==
    pc = "done" /\ call.funcName # "" =>
        /\ OnlyAcceptedOrObject => SameAsLegacy
        /\ ~SameAsLegacy <=>
               \E i \in Attempts : RejectedWith(outcomes[i], UndecodableTransientBodies)

C30_Witness ==
    /\ pc = "done"
    /\ outcomes = <<Resp(409, B_Conflict), Resp(409, B_Conflict), Resp(409, B_Unknown)>>
    /\ Legacy.returned
    /\ Legacy.counter = 3
    /\ Legacy.sleeps = 2
    /\ Legacy.ret.err # NilErr
    /\ SameAsLegacy

====
